---------------------------- MODULE Spec2Model ----------------------------
(***************************************************************************)
(* Model of the geobot conversation router (frkn-dev/geobot).              *)
(*                                                                         *)
(* Two revisions of get_bot are in the tree: src/bot/factory.py (the       *)
(* package the webhook imports; paginated results, message templates) and  *)
(* src/bot.py (the single-module revision).  The variable `revision` fixes *)
(* which one is deployed; every handler is translated per revision.        *)
(*                                                                         *)
(* Strings are modelled as sequences of tokens: a token stands for one     *)
(* code point where the code slices or tests a prefix (the check mark      *)
(* U+2714, the variation selector U+FE0F, the space), for one separator    *)
(* (",", ":", "/"), or for a run of characters the code never looks into.  *)
(***************************************************************************)
EXTENDS Integers, Sequences, FiniteSets, TLC

\* ------------------------------------------------------------------ bounds
\* Largest number of hits one geocode response carries.
MaxResults == 4
\* Longest button label (in tokens) a toggle press may produce.
MaxLabelLen == 6

\* The chats of the run, and the detail buttons the user presses.
ChatIds == {1}
PressedFields == {"city", "country"}

\* ----------------------------------------------------------- string helpers
RECURSIVE SplitFrom(_, _, _)
\* str.split(sep) on a token sequence: cur is the piece being collected.
SplitFrom(s, sep, cur) ==
    IF s = <<>> THEN <<cur>>
    ELSE IF Head(s) = sep THEN <<cur>> \o SplitFrom(Tail(s), sep, <<>>)
    ELSE SplitFrom(Tail(s), sep, Append(cur, Head(s)))

Split(s, sep) == SplitFrom(s, sep, <<>>)

RECURSIVE Join(_, _)
\* sep.join(parts), each part a token sequence.
Join(parts, sep) ==
    IF parts = <<>> THEN <<>>
    ELSE IF Len(parts) = 1 THEN parts[1]
    ELSE parts[1] \o <<sep>> \o Join(Tail(parts), sep)

RECURSIVE LStrip(_)
LStrip(s) == IF s # <<>> /\ Head(s) = " " THEN LStrip(Tail(s)) ELSE s

RECURSIVE RStrip(_)
RStrip(s) ==
    IF s # <<>> /\ s[Len(s)] = " " THEN RStrip(SubSeq(s, 1, Len(s) - 1)) ELSE s

\* str.strip()
Strip(s) == RStrip(LStrip(s))

Contains(s, tok) == \E i \in 1..Len(s) : s[i] = tok

RECURSIVE Flatten(_)
\* The buttons of a keyboard, row by row (for row in keyboard for button in row).
Flatten(rows) == IF rows = <<>> THEN <<>> ELSE Head(rows) \o Flatten(Tail(rows))

\* -------------------------------------------------------------- keyboards
Button(text, data) == [text |-> text, callback_data |-> data]

CheckMark == <<"U+2714", "U+FE0F">>

\* button.text.startswith(CheckMark)
StartsWithCheck(text) ==
    /\ Len(text) >= 2
    /\ text[1] = CheckMark[1]
    /\ text[2] = CheckMark[2]

\* The inline keyboard sent by welcome_advanced_search.
AdvancedKeyboard ==
    << << Button(<<"U+1F30E", " ", "Country">>, <<"country">>),
          Button(<<"State">>, <<"state">>),
          Button(<<"County">>, <<"county">>) >>,
       << Button(<<"U+1F3D9", " ", "City">>, <<"city">>),
          Button(<<"U+1F6E3", " ", "Street">>, <<"street">>),
          Button(<<"U+1F4EE", " ", "Postal code">>, <<"postal code">>) >>,
       << Button(<<"U+1F50D", " ", "Search">>, <<"search">>) >> >>

DetailFields == {"country", "state", "county", "city", "street", "postal code"}

\* ------------------------------------------------------------ the geocoder
\* Token tables: the i-th hit of a response.
NameTok == <<"name1", "name2", "name3", "name4", "name5", "name6", "name7", "name8">>
LatTok == <<"lat1", "lat2", "lat3", "lat4", "lat5", "lat6", "lat7", "lat8">>
LonTok == <<"lon1", "lon2", "lon3", "lon4", "lon5", "lon6", "lon7", "lon8">>
RevTok == <<"rev1", "rev2", "rev3", "rev4", "rev5", "rev6", "rev7", "rev8">>
PageTok == <<"1", "2", "3", "4", "5", "6", "7", "8">>

\* A response of n hits, as the (display_name, (lat, lon)) tuples the handlers build.
Locations(n) ==
    [i \in 1..n |-> [name |-> <<NameTok[i]>>, lat |-> LatTok[i], lon |-> LonTok[i]]]

\* Mutant of GetLocationsMode: the check for both arguments is missing.
GetLocationsModeQueryWins(query, details) ==
    IF query = <<>> /\ details = <<>> THEN "ValueError"
    ELSE IF query # <<>> THEN "q"
    ELSE "details"

\* get_locations: which request is made, or the ValueError before any request.
GetLocationsMode(query, details) ==
    IF details # <<>> /\ query # <<>> THEN "ValueError"
    ELSE IF query = <<>> /\ details = <<>> THEN "ValueError"
    ELSE IF query # <<>> THEN "q"
    ELSE "details"

\* location_name: the reverse lookup's display_name for a coordinate pair.
LocationName(lat, lon) ==
    LET i == CHOOSE k \in 1..Len(LatTok) : LatTok[k] = lat IN <<RevTok[i]>>


\* Mutant of PageStarts: range(2, n, 2), pages only for the results after the
\* first two.
PageStartsAfterFirst(n) == [k \in 1..((n - 1) \div 2) |-> 2 * k]

\* range(0, n, 2): the start offsets of the pages of a list of n results.
PageStarts(n) == [k \in 1..((n + 1) \div 2) |-> 2 * (k - 1)]

\* locations[i : i + 2] for a 0-based offset i.
PageAt(locs, i) ==
    SubSeq(locs, i + 1, IF i + 2 <= Len(locs) THEN i + 2 ELSE Len(locs))

\* "/".join(":".join(location[1]) for location in page)
PagePayload(page) ==
    Join([i \in 1..Len(page) |-> Join(<< <<page[i].lat>>, <<page[i].lon>> >>, ":")], "/")

\* f"{lat}:{lon}"
CoordPayload(lat, lon) == <<lat, ":", lon>>

\* paginate_locations: the first two results as rows, then (more than two
\* results) one row of page buttons.
paginate_locations(locs) ==
    LET n == Len(locs)
        first == [i \in 1..(IF n < 2 THEN n ELSE 2) |->
                    << Button(locs[i].name, CoordPayload(locs[i].lat, locs[i].lon)) >>]
        starts == PageStarts(n)
        second == IF n > 2
                  THEN << [k \in 1..Len(starts) |->
                             Button(<<PageTok[k]>>, PagePayload(PageAt(locs, starts[k])))] >>
                  ELSE <<>>
    IN first \o second

\* The keyboard of src/bot.py's search and advanced_search: one row per result.
ResultRows(locs) ==
    [i \in 1..Len(locs) |->
        << Button(locs[i].name, CoordPayload(locs[i].lat, locs[i].lon)) >>]

\* ------------------------------------------------------------------ state
VARIABLES
    revision,   \* "factory" (src/bot/factory.py) or "legacy" (src/bot.py)
    users,      \* the Deta base "users": chat id -> stored item
    advMsg,     \* chat id -> keyboard of the chat's advanced-search message (<<>>: none)
    resMsg,     \* chat id -> keyboard of the chat's result message (<<>>: none)
    registered, \* whether an advanced_search message handler is registered
    last,       \* the event handled last and what the handler did
    toggled,    \* history: chat id -> the fields pressed an odd number of times on
                \* the chat's advanced-search message, in the order switched on
    hits        \* history: chat id -> size of the result list the chat's result
                \* message was built from (0: no result message)

vars == <<revision, users, advMsg, resMsg, registered, last, toggled, hits>>

\* A stored item.  exists = FALSE: users.get(key) is None.  hasDetails = FALSE:
\* the item has no "details" attribute.
NoItem == [exists |-> FALSE, state |-> "None", hasDetails |-> FALSE, details |-> <<>>]

\* users.insert({"state": None}, key) on a key that is not stored.
InsertedItem == [exists |-> TRUE, state |-> "None", hasDetails |-> FALSE, details |-> <<>>]

\* users.update({"state": value}, key): only the given attribute is written.
UpdateState(item, value) == [item EXCEPT !.state = value]

\* users.update({"details": details}, key)
UpdateDetails(item, details) == [item EXCEPT !.hasDetails = TRUE, !.details = details]

\* The record of a handled event.  input: the text or payload; before: the
\* chat's stored item when the event arrived; out: the transport calls made,
\* in order; request: the parameters of the geocode search made (<<>>: none);
\* prompt: the field names put in the text add_details edits in.
Handled(c, input, h, raised, out, request, prompt) ==
    [chat |-> c, input |-> input, handler |-> h, raised |-> raised, out |-> out,
     request |-> request, prompt |-> prompt,
     before |-> IF c \in DOMAIN users THEN users[c] ELSE NoItem]

Init ==
    /\ revision \in {"factory", "legacy"}
    /\ users = [c \in ChatIds |-> NoItem]
    /\ advMsg = [c \in ChatIds |-> <<>>]
    /\ resMsg = [c \in ChatIds |-> <<>>]
    /\ registered = (revision = "factory")
    /\ last = Handled(0, <<>>, "init", FALSE, <<>>, <<>>, <<>>)
    /\ toggled = [c \in ChatIds |-> <<>>]
    /\ hits = [c \in ChatIds |-> 0]

\* ------------------------------------------------------- text message input
Texts ==
    { <<"/start">>, <<"/help">>, <<"/search">>, <<"Basic search">>,
      <<"/advanced">>, <<"Advanced search">>,
      <<"Paris">>, <<"Paris", ",", " ", "France">> }

\* commands=[cmd]: the text's first word is "/cmd".
IsCommand(text, cmd) == text # <<>> /\ Head(text) = cmd

\* regexp ^(/search)|(Basic search)$ (factory), commands=["search"] (legacy)
MatchesSearchCommand(text) ==
    IF revision = "factory"
    THEN Head(text) = "/search" \/ text[Len(text)] = "Basic search"
    ELSE IsCommand(text, "/search")

\* regexp ^(\/advanced)|(Advanced search)$ (factory), commands=["advanced"] (legacy)
MatchesAdvancedCommand(text) ==
    IF revision = "factory"
    THEN Head(text) = "/advanced" \/ text[Len(text)] = "Advanced search"
    ELSE IsCommand(text, "/advanced")

MatchesHelp(text) == revision = "factory" /\ IsCommand(text, "/help")

\* Mutant of IsCommandText: the state-dispatched handlers are declared first.
IsCommandTextNever(text) == FALSE

\* A handler declared before the state-dispatched ones takes the message.
IsCommandText(text) ==
    \/ MatchesHelp(text)
    \/ IsCommand(text, "/start")
    \/ MatchesSearchCommand(text)
    \/ MatchesAdvancedCommand(text)

\* The message handler the dispatch picks for a text of chat c: the first, in
\* declaration order, whose filter accepts it ("none": no handler takes it,
\* which includes the filter of search raising for a chat that is not stored).
HandlerFor(c, text) ==
    IF MatchesHelp(text) THEN "help"
    ELSE IF IsCommand(text, "/start") THEN "start"
    ELSE IF MatchesSearchCommand(text) THEN "welcome_search"
    ELSE IF MatchesAdvancedCommand(text) THEN "welcome_advanced_search"
    ELSE IF ~users[c].exists THEN "none"
    ELSE IF users[c].state = "search" THEN "search"
    ELSE IF users[c].state = "advanced_search" /\ registered THEN "advanced_search"
    ELSE "none"

\* ------------------------------------------------------- message handlers
help(c, text) ==
    /\ MatchesHelp(text)
    /\ last' = Handled(c, text, "help", FALSE, <<"send_message:HELP_MESSAGE">>, <<>>, <<>>)
    /\ UNCHANGED <<revision, users, advMsg, resMsg, registered, toggled, hits>>

\* try: insert({"state": None}) except: update({"state": None})
start(c, text) ==
    /\ ~MatchesHelp(text)
    /\ IsCommand(text, "/start")
    /\ users' = [users EXCEPT ![c] =
                    IF users[c].exists THEN UpdateState(users[c], "None")
                    ELSE InsertedItem]
    /\ last' = Handled(c, text, "start", FALSE, <<"send_message:START_MESSAGE">>, <<>>, <<>>)
    /\ UNCHANGED <<revision, advMsg, resMsg, registered, toggled, hits>>

\* users.update raises on a key that is not stored; nothing is sent then.
welcome_search(c, text) ==
    /\ ~MatchesHelp(text) /\ ~IsCommand(text, "/start")
    /\ MatchesSearchCommand(text)
    /\ IF users[c].exists
       THEN /\ users' = [users EXCEPT ![c] = UpdateState(users[c], "search")]
            /\ last' = Handled(c, text, "welcome_search", FALSE,
                               <<"send_message:SIMPLE_SEARCH_WELCOME_MESSAGE">>, <<>>, <<>>)
       ELSE /\ users' = users
            /\ last' = Handled(c, text, "welcome_search", TRUE, <<>>, <<>>, <<>>)
    /\ UNCHANGED <<revision, advMsg, resMsg, registered, toggled, hits>>

welcome_advanced_search(c, text) ==
    /\ ~MatchesHelp(text) /\ ~IsCommand(text, "/start") /\ ~MatchesSearchCommand(text)
    /\ MatchesAdvancedCommand(text)
    /\ IF users[c].exists
       THEN /\ users' = [users EXCEPT ![c] = UpdateState(users[c], "advanced_search")]
            /\ advMsg' = [advMsg EXCEPT ![c] = AdvancedKeyboard]
            /\ toggled' = [toggled EXCEPT ![c] = <<>>]
            /\ last' = Handled(c, text, "welcome_advanced_search", FALSE,
                               <<"send_message:ADVANCED_SEARCH_WELCOME_MESSAGE">>, <<>>, <<>>)
       ELSE /\ users' = users
            /\ advMsg' = advMsg
            /\ toggled' = toggled
            /\ last' = Handled(c, text, "welcome_advanced_search", TRUE, <<>>, <<>>, <<>>)
    /\ UNCHANGED <<revision, resMsg, registered, hits>>

\* What the geocode API can answer to one search: a failure (the request or
\* the JSON decoding raises) or a list of 0..MaxResults hits.
SearchOutcomes == {-1} \cup (0..MaxResults)

\* The store write that ends search: src/bot.py:172 resets the state, the
\* handler of src/bot/factory.py ends without a write.
SearchFinalItem(item) ==
    IF revision = "legacy" THEN UpdateState(item, "None") ELSE item

\* What search sends when the search raised: src/bot.py:166-171 sends the
\* notice and re-raises; src/bot/factory.py has no try block.
SearchFailureOut ==
    IF revision = "legacy" THEN <<"send_message:Oops">> ELSE <<>>

\* The keyboard search and advanced_search attach to a non-empty result list.
ResultKeyboard(locs) ==
    IF revision = "factory" THEN paginate_locations(locs) ELSE ResultRows(locs)

\* func=lambda msg: users.get(str(msg.chat.id))["state"] == "search"
search(c, text, n) ==
    /\ ~IsCommandText(text)
    /\ users[c].exists /\ users[c].state = "search"
    /\ LET request == << <<"q", text>> >> IN
       IF GetLocationsMode(text, <<>>) = "ValueError" \/ n = -1
       THEN /\ last' = Handled(c, text, "search", TRUE, SearchFailureOut, request, <<>>)
            /\ UNCHANGED <<users, resMsg, hits>>
       ELSE IF n = 0
       THEN /\ last' = Handled(c, text, "search", FALSE,
                               <<"send_message:NO_RESULTS_FOUND_MESSAGE">>, request, <<>>)
            /\ users' = [users EXCEPT ![c] = SearchFinalItem(users[c])]
            /\ UNCHANGED <<resMsg, hits>>
       ELSE /\ last' = Handled(c, text, "search", FALSE,
                               IF revision = "legacy"
                               THEN <<"delete_message", "send_message:SIMPLE_SEARCH_MESSAGE">>
                               ELSE <<"send_message:SIMPLE_SEARCH_MESSAGE">>,
                               request, <<>>)
            /\ resMsg' = [resMsg EXCEPT ![c] = ResultKeyboard(Locations(n))]
            /\ hits' = [hits EXCEPT ![c] = n]
            /\ users' = [users EXCEPT ![c] = SearchFinalItem(users[c])]
    /\ UNCHANGED <<revision, advMsg, registered, toggled>>

\* Mutant of DetailValues: the text is not split on commas.
DetailValuesUnsplit(text) == <<Strip(text)>>

\* [detail.strip() for detail in message.text.split(",")]
DetailValues(text) ==
    LET parts == Split(text, ",") IN [i \in 1..Len(parts) |-> Strip(parts[i])]

\* dict(zip(details_types, details)), in insertion order
ZipDetails(types, values) == [i \in 1..Len(types) |-> <<types[i], values[i]>>]

\* Mutant of StoredDetailsMissing: a missing list is read as an empty one.
StoredDetailsMissingNever(item) == FALSE

\* users.get(str(message.chat.id))["details"] raises KeyError.
StoredDetailsMissing(item) == ~item.hasDetails

\* Mutant of AdvancedSearchFinalItem: the handler ends by resetting the state,
\* as search does in src/bot.py.
AdvancedSearchFinalItemReset(item) == UpdateState(item, "None")

\* The stored item when advanced_search returns: the handler makes no
\* users.insert, users.update or users.put call.
AdvancedSearchFinalItem(item) == item

\* func=lambda msg: users.get(str(msg.chat.id))["state"] == "advanced_search"
\* In src/bot.py the handler exists only once add_details has run.
advanced_search(c, text, n) ==
    /\ ~IsCommandText(text)
    /\ users[c].exists /\ users[c].state = "advanced_search"
    /\ registered
    /\ LET types == users[c].details
           values == DetailValues(text)
           request == ZipDetails(types, values)
       IN
       IF StoredDetailsMissing(users[c])
       THEN \* users.get(...)["details"] raises KeyError
            /\ last' = Handled(c, text, "advanced_search", TRUE, <<>>, <<>>, <<>>)
            /\ UNCHANGED <<resMsg, hits>>
       ELSE IF Len(values) # Len(types)
       THEN /\ last' = Handled(c, text, "advanced_search", FALSE,
                               <<"send_message:INCORRECT_DETAILS_COUNT_MESSAGE">>,
                               <<>>, <<>>)
            /\ UNCHANGED <<resMsg, hits>>
       ELSE IF GetLocationsMode(<<>>, request) = "ValueError" \/ n = -1
       THEN /\ last' = Handled(c, text, "advanced_search", TRUE, <<>>, request, <<>>)
            /\ UNCHANGED <<resMsg, hits>>
       ELSE IF n = 0
       THEN /\ last' = Handled(c, text, "advanced_search", FALSE,
                               <<"send_message:NO_RESULTS_FOUND_MESSAGE">>, request, <<>>)
            /\ UNCHANGED <<resMsg, hits>>
       ELSE /\ last' = Handled(c, text, "advanced_search", FALSE,
                               <<"send_message:ADVANCED_SEARCH_MESSAGE">>, request, <<>>)
            /\ resMsg' = [resMsg EXCEPT ![c] = ResultKeyboard(Locations(n))]
            /\ hits' = [hits EXCEPT ![c] = n]
    /\ users' = [users EXCEPT ![c] = IF last'.raised THEN users[c]
                                     ELSE AdvancedSearchFinalItem(users[c])]
    /\ UNCHANGED <<revision, advMsg, registered, toggled>>

\* No message handler takes the text.  For a chat that is not stored the
\* predicate of search raises (None["state"]) while the handlers are tried.
unhandled_text(c, text) ==
    /\ ~IsCommandText(text)
    /\ \/ ~users[c].exists
       \/ users[c].state = "None"
       \/ users[c].state = "advanced_search" /\ ~registered
    /\ last' = Handled(c, text, "none", ~users[c].exists, <<>>, <<>>, <<>>)
    /\ UNCHANGED <<revision, users, advMsg, resMsg, registered, toggled, hits>>

\* ------------------------------------------------------ callback handlers
\* The buttons a user can press: those of the chat's two keyboard messages.
\* Of the detail buttons only those in PressedFields are pressed.
Pressable(c) ==
    { b \in {Flatten(advMsg[c])[i] : i \in 1..Len(Flatten(advMsg[c]))}
            \cup {Flatten(resMsg[c])[i] : i \in 1..Len(Flatten(resMsg[c]))} :
        b.callback_data[1] \in DetailFields => b.callback_data[1] \in PressedFields }

\* Payloads of buttons the bot's current handlers never build (a keyboard of
\* an earlier deployment): an unknown token, and three colon-separated tokens.
StrayPayloads == { <<"noop">>, <<"lat1", ":", "lon1", ":", "alt1">> }

\* The payloads a callback query of the chat can carry.
PressData(c) == {b.callback_data : b \in Pressable(c)} \cup StrayPayloads

\* The message a pressed payload sits on: callback.message.reply_markup.
MarkupOf(c, data) ==
    IF \E i \in 1..Len(Flatten(advMsg[c])) : Flatten(advMsg[c])[i].callback_data = data
    THEN advMsg[c] ELSE resMsg[c]

\* len(call.data.split(":")) == 2 (factory), ":" in call.data (legacy)
IsShowLocation(data) ==
    IF revision = "factory" THEN Len(Split(data, ":")) = 2 ELSE Contains(data, ":")

\* "/" in call.data; src/bot.py has no page handler
IsSwitchPage(data) == revision = "factory" /\ Contains(data, "/")

\* call.data in ["country", "state", "county", "city", "street", "postal code"]
IsCheckDetails(data) == Len(data) = 1 /\ data[1] \in DetailFields

\* Mutant of IsAddDetails: the last callback handler takes every payload.
IsAddDetailsAny(data) == TRUE

\* call.data == "search"
IsAddDetails(data) == data = <<"search">>

show_location(c, data) ==
    /\ IsShowLocation(data)
    /\ IF Len(Split(data, ":")) = 2
       THEN last' = Handled(c, data, "show_location", FALSE,
                            <<"delete_message", "send_location">>, <<>>, <<>>)
       ELSE \* latitude, longitude = callback.data.split(":") raises ValueError
            last' = Handled(c, data, "show_location", TRUE, <<>>, <<>>, <<>>)
    \* the new message carries callback.message.reply_markup
    /\ UNCHANGED <<revision, users, advMsg, resMsg, registered, toggled, hits>>

\* The attributes of src/bot/messages.py.
MessageNames ==
    { "START_MESSAGE", "SIMPLE_SEARCH_WELCOME_MESSAGE", "ADVANCED_SEARCH_WELCOME_MESSAGE",
      "NO_RESULTS_FOUND_MESSAGE", "SIMPLE_SEARCH_MESSAGE", "ADVANCED_SEARCH_MESSAGE",
      "WAIT_FOR_DETAILS_MESSAGE", "WAIT_FOR_DETAIL_MESSAGE", "NEED_MORE_DETAILS_MESSAGE",
      "INCORRECT_DETAILS_COUNT_MESSAGE" }

\* Mutant of PagesRowIndex: keyboard[1], the second result row.
PagesRowIndexOff == 3 - 1

\* The index (1-based) of the row switch_page keeps: keyboard[2].
PagesRowIndex == 3

\* Mutant of PageRows: the payload of each rebuilt button is f"{lon}:{lat}".
PageRowsSwapped(data) ==
    LET coords == Split(data, "/") IN
    [i \in 1..Len(coords) |->
        LET pair == Split(coords[i], ":") IN
        << Button(LocationName(pair[1][1], pair[2][1]),
                  CoordPayload(pair[2][1], pair[1][1])) >>]

\* The rows switch_page builds: one button per coordinate pair of the payload,
\* named by the reverse lookup.
PageRows(data) ==
    LET coords == Split(data, "/") IN
    [i \in 1..Len(coords) |->
        LET pair == Split(coords[i], ":") IN
        << Button(LocationName(pair[1][1], pair[2][1]),
                  CoordPayload(pair[1][1], pair[2][1])) >>]

\* lookupOk: every reverse lookup answers; editOk: the transport accepts the
\* edit (it refuses one that changes nothing, or when it is unreachable).
switch_page(c, data, lookupOk, editOk) ==
    /\ ~IsShowLocation(data)
    /\ IsSwitchPage(data)
    /\ LET markup == MarkupOf(c, data)
           coords == Split(data, "/")
       IN
       IF Len(markup) < PagesRowIndex
       THEN \* keyboard[2] raises IndexError
            /\ last' = Handled(c, data, "switch_page", TRUE, <<>>, <<>>, <<>>)
            /\ UNCHANGED resMsg
       ELSE IF (\E i \in 1..Len(coords) : Len(Split(coords[i], ":")) # 2) \/ ~lookupOk
       THEN \* the unpacking or location_name raises, outside the try block
            /\ last' = Handled(c, data, "switch_page", TRUE, <<>>, <<>>, <<>>)
            /\ UNCHANGED resMsg
       ELSE IF editOk
       THEN /\ last' = Handled(c, data, "switch_page", FALSE,
                               <<"edit_message_reply_markup">>, <<>>, <<>>)
            /\ resMsg' = [resMsg EXCEPT ![c] = PageRows(data) \o <<markup[PagesRowIndex]>>]
       ELSE \* except: messages.CHANGE_CURRENT_PAGE_ERROR is looked up first
            /\ last' = IF "CHANGE_CURRENT_PAGE_ERROR" \in MessageNames
                       THEN Handled(c, data, "switch_page", FALSE,
                                    <<"answer_callback_query:CHANGE_CURRENT_PAGE_ERROR">>,
                                    <<>>, <<>>)
                       ELSE Handled(c, data, "switch_page", TRUE, <<>>, <<>>, <<>>)
            /\ UNCHANGED resMsg
    /\ UNCHANGED <<revision, users, advMsg, registered, toggled, hits>>

\* The new text of a pressed detail button.
ToggleText(text) ==
    IF ~StartsWithCheck(text) THEN CheckMark \o <<" ">> \o text ELSE Tail(text)

\* The loop of check_details over the markup.
ToggleMarkup(markup, data) ==
    [r \in 1..Len(markup) |->
        [k \in 1..Len(markup[r]) |->
            IF markup[r][k].callback_data = data
            THEN [markup[r][k] EXCEPT !.text = ToggleText(markup[r][k].text)]
            ELSE markup[r][k]]]

RECURSIVE Without(_, _)
Without(s, x) ==
    IF s = <<>> THEN <<>>
    ELSE IF Head(s) = x THEN Without(Tail(s), x)
    ELSE <<Head(s)>> \o Without(Tail(s), x)

\* History of the presses: a press switches the field on (appended) or off.
Pressed(order, field) ==
    IF \E i \in 1..Len(order) : order[i] = field
    THEN Without(order, field) ELSE Append(order, field)

check_details(c, data) ==
    /\ ~IsShowLocation(data) /\ ~IsSwitchPage(data)
    /\ IsCheckDetails(data)
    /\ LET markup == ToggleMarkup(advMsg[c], data) IN
       /\ \A i \in 1..Len(Flatten(markup)) : Len(Flatten(markup)[i].text) <= MaxLabelLen
       /\ advMsg' = [advMsg EXCEPT ![c] = markup]
    /\ toggled' = [toggled EXCEPT ![c] = Pressed(toggled[c], data[1])]
    /\ last' = Handled(c, data, "check_details", FALSE, <<"edit_message_reply_markup">>,
                       <<>>, <<>>)
    /\ UNCHANGED <<revision, users, resMsg, registered, hits>>

RECURSIVE CheckedOf(_)
\* [button.callback_data for button in buttons if button.text.startswith(CheckMark)]
CheckedOf(buttons) ==
    IF buttons = <<>> THEN <<>>
    ELSE IF StartsWithCheck(Head(buttons).text)
         THEN <<Head(buttons).callback_data[1]>> \o CheckedOf(Tail(buttons))
         ELSE CheckedOf(Tail(buttons))

RECURSIVE DetailButtonsOf(_)
DetailButtonsOf(buttons) ==
    IF buttons = <<>> THEN <<>>
    ELSE IF IsCheckDetails(Head(buttons).callback_data)
         THEN <<Head(buttons).callback_data[1]>> \o DetailButtonsOf(Tail(buttons))
         ELSE DetailButtonsOf(Tail(buttons))

\* Mutant of CheckedDetails: the comprehension has lost its startswith filter.
CheckedDetailsUnfiltered(markup) == DetailButtonsOf(Flatten(markup))

\* Mutant of CheckedDetails: the rows are read bottom-up.
CheckedDetailsBottomUp(markup) ==
    CheckedOf(Flatten([r \in 1..Len(markup) |-> markup[Len(markup) + 1 - r]]))

\* The details add_details reads off the markup, row by row.
CheckedDetails(markup) == CheckedOf(Flatten(markup))

\* The item add_details stores: only "details" is written.
ConfirmedItem(item, details) == UpdateDetails(item, details)

add_details(c, data) ==
    /\ ~IsShowLocation(data) /\ ~IsSwitchPage(data) /\ ~IsCheckDetails(data)
    /\ IsAddDetails(data)
    /\ LET details == CheckedDetails(MarkupOf(c, data)) IN
       IF details # <<>> /\ ~users[c].exists
       THEN \* users.update raises on a key that is not stored
            /\ last' = Handled(c, data, "add_details", TRUE, <<>>, <<>>, <<>>)
            /\ UNCHANGED <<users, advMsg, registered>>
       ELSE /\ IF details # <<>>
               THEN /\ users' = [users EXCEPT ![c] = ConfirmedItem(users[c], details)]
                    \* edit_message_text without reply_markup drops the keyboard
                    /\ advMsg' = [advMsg EXCEPT ![c] = <<>>]
                    /\ last' = Handled(c, data, "add_details", FALSE,
                                       <<IF Len(details) > 1
                                         THEN "edit_message_text:WAIT_FOR_DETAILS_MESSAGE"
                                         ELSE "edit_message_text:WAIT_FOR_DETAIL_MESSAGE">>,
                                       <<>>, details)
               ELSE /\ last' = Handled(c, data, "add_details", FALSE,
                                       <<"answer_callback_query:NEED_MORE_DETAILS_MESSAGE">>,
                                       <<>>, <<>>)
                    /\ UNCHANGED <<users, advMsg>>
            \* src/bot.py:253 registers advanced_search at the end of add_details
            /\ registered' = TRUE
    /\ UNCHANGED <<revision, resMsg, toggled, hits>>

\* No callback handler takes the payload.
unhandled_callback(c, data) ==
    /\ ~IsShowLocation(data) /\ ~IsSwitchPage(data) /\ ~IsCheckDetails(data)
    /\ ~IsAddDetails(data)
    /\ last' = Handled(c, data, "none", FALSE, <<>>, <<>>, <<>>)
    /\ UNCHANGED <<revision, users, advMsg, resMsg, registered, toggled, hits>>

\* The process is started again (get_bot runs anew): the store and the chats'
\* messages are external and stay; the handler list is rebuilt.
restart ==
    /\ registered' = (revision = "factory")
    /\ last' = Handled(0, <<>>, "init", FALSE, <<>>, <<>>, <<>>)
    /\ UNCHANGED <<revision, users, advMsg, resMsg, toggled, hits>>

\* -------------------------------------------------------------------- Next
Next ==
    \/ \E c \in DOMAIN users, text \in Texts : help(c, text)
    \/ \E c \in DOMAIN users, text \in Texts : start(c, text)
    \/ \E c \in DOMAIN users, text \in Texts : welcome_search(c, text)
    \/ \E c \in DOMAIN users, text \in Texts : welcome_advanced_search(c, text)
    \/ \E c \in DOMAIN users, text \in Texts, n \in SearchOutcomes : search(c, text, n)
    \/ \E c \in DOMAIN users, text \in Texts, n \in SearchOutcomes :
          advanced_search(c, text, n)
    \/ \E c \in DOMAIN users, text \in Texts : unhandled_text(c, text)
    \/ \E c \in DOMAIN users : \E data \in PressData(c) : show_location(c, data)
    \/ \E c \in DOMAIN users : \E data \in PressData(c) :
          \E lookupOk \in BOOLEAN, editOk \in BOOLEAN :
             switch_page(c, data, lookupOk, editOk)
    \/ \E c \in DOMAIN users : \E data \in PressData(c) : check_details(c, data)
    \/ \E c \in DOMAIN users : \E data \in PressData(c) : add_details(c, data)
    \/ \E c \in DOMAIN users : \E data \in PressData(c) : unhandled_callback(c, data)
    \/ restart

Spec == Init /\ [][Next]_vars

\* ------------------------------------------------------------- two chats
\* Two chats, each sending /start, /advanced and one plain text, and pressing
\* City and the confirm button; searches answer with a failure or no hit.
TwoChats == {1, 2}

InitTwoChats ==
    /\ revision \in {"factory", "legacy"}
    /\ users = [c \in TwoChats |-> NoItem]
    /\ advMsg = [c \in TwoChats |-> <<>>]
    /\ resMsg = [c \in TwoChats |-> <<>>]
    /\ registered = (revision = "factory")
    /\ last = Handled(0, <<>>, "init", FALSE, <<>>, <<>>, <<>>)
    /\ toggled = [c \in TwoChats |-> <<>>]
    /\ hits = [c \in TwoChats |-> 0]

NextTwoChats ==
    \/ \E c \in DOMAIN users : start(c, <<"/start">>)
    \/ \E c \in DOMAIN users : welcome_advanced_search(c, <<"/advanced">>)
    \/ \E c \in DOMAIN users, n \in {-1, 0} : advanced_search(c, <<"Paris">>, n)
    \/ \E c \in DOMAIN users : unhandled_text(c, <<"Paris">>)
    \/ \E c \in DOMAIN users :
          \E data \in PressData(c) \cap {<<"city">>} : check_details(c, data)
    \/ \E c \in DOMAIN users :
          \E data \in PressData(c) \cap {<<"search">>} : add_details(c, data)

SpecTwoChats == InitTwoChats /\ [][NextTwoChats]_vars

\* ------------------------------------------------- get_locations on its own
\* The arguments get_locations is applied to: a query (<<>>: None or "") and
\* keyword details (<<>>: none) of one to three fields.
QueryArgs == Texts \cup {<<>>}

DetailArgs ==
    LET fieldLists == { <<"country">>, <<"city">>, <<"street">>,
                        <<"country", "city">>, <<"country", "street">>,
                        <<"city", "street">>, <<"country", "city", "street">> }
        values == { <<"Paris">>, <<"France">> }
    IN {<<>>} \cup
       UNION { { [i \in 1..Len(t) |-> <<t[i], v[i]>>] : v \in [1..Len(t) -> values] } :
               t \in fieldLists }

\* One call get_locations(query, **details); ok: the request and its JSON
\* decoding succeed.  out lists the requests issued.
get_locations(query, details, ok) ==
    /\ LET mode == GetLocationsMode(query, details) IN
       last' = Handled(0, <<query, details>>, "get_locations",
                       mode = "ValueError" \/ ~ok,
                       IF mode = "ValueError" THEN <<>> ELSE <<"requests.get">>,
                       IF mode = "q" THEN << <<"q", query>> >>
                       ELSE IF mode = "details" THEN details ELSE <<>>,
                       <<>>)
    /\ UNCHANGED <<revision, users, advMsg, resMsg, registered, toggled, hits>>

NextGetLocations ==
    \E query \in QueryArgs, details \in DetailArgs, ok \in BOOLEAN :
        get_locations(query, details, ok)

SpecGetLocations == Init /\ [][NextGetLocations]_vars

\* ------------------------------------------------------------------ claims
\* The chat's stored detail-field list is empty (or was never written).
NoStoredDetails(c) == ~users[c].hasDetails \/ users[c].details = <<>>

\* C1: when search has handled a text message and finished (results or zero
\* results), the chat's stored state is Idle (None).
C1_SearchLeavesIdle ==
    (last.handler = "search" /\ ~last.raised) => users[last.chat].state = "None"

\* C2: when the geocode call raised inside search, the chat was sent the
\* generic failure notice and its stored state is Idle afterwards.
C2_FailedSearchLeavesIdle ==
    (last.handler = "search" /\ last.raised) =>
        /\ last.out = <<"send_message:Oops">>
        /\ users[last.chat].state = "None"

\* C3: after /start is handled the stored state is Idle and the stored
\* detail-field list is empty, whatever the session was before.
C3_StartResetsSession ==
    last.handler = "start" =>
        /\ users[last.chat].state = "None"
        /\ NoStoredDetails(last.chat)

\* C4: handling /search or /advanced (or their button aliases) starts a new
\* search cycle and leaves the stored detail-field list empty.
C4_NewCycleClearsDetails ==
    (last.handler \in {"welcome_search", "welcome_advanced_search"} /\ ~last.raised) =>
        NoStoredDetails(last.chat)

\* C5: after confirm is pressed with at least one field checked, the checked
\* fields are stored and the stored state is the awaiting-detail-values
\* (advanced) state, whatever the state was before the press.
C5_ConfirmEntersAwaitingValues ==
    (last.handler = "add_details" /\ ~last.raised /\ last.prompt # <<>>) =>
        /\ users[last.chat].hasDetails
        /\ users[last.chat].details = last.prompt
        /\ users[last.chat].state = "advanced_search"

\* The detail fields in the order of their buttons on the keyboard
\* (src/bot/factory.py:164-185).
KeyboardOrder == <<"country", "state", "county", "city", "street", "postal code">>

\* The fields of `order`, rearranged into keyboard order.
InKeyboardOrder(order) ==
    SelectSeq(KeyboardOrder, LAMBDA f : \E i \in 1..Len(order) : order[i] = f)

ParisFrance == <<"Paris", ",", " ", "France">>

\* The structured search just made used the fields the chat confirmed on the
\* keyboard whose presses `toggled` records.
SearchedConfirmedFields ==
    /\ last.handler = "advanced_search"
    /\ last.request # <<>>
    /\ advMsg[last.chat] = <<>>
    /\ toggled[last.chat] # <<>>

\* C6 (as claimed): the stored field list, the prompt and the pairing of the
\* comma-separated values follow the order in which the fields were toggled on.
C6_ToggleOrderKept ==
    /\ (last.handler = "add_details" /\ last.prompt # <<>>) =>
          /\ users[last.chat].details = toggled[last.chat]
          /\ last.prompt = toggled[last.chat]
    /\ (SearchedConfirmedFields /\ last.input = ParisFrance
            /\ toggled[last.chat] = <<"city", "country">>) =>
          last.request = << <<"city", <<"Paris">> >>, <<"country", <<"France">> >> >>

\* C6 (amended): the stored field list and the prompt list the checked fields
\* in keyboard order (country, state, county, city, street, postal code),
\* whatever the toggle order, and a structured search pairs the i-th
\* comma-separated value, stripped, with the i-th stored field.
C6_KeyboardOrderKept ==
    /\ (last.handler = "add_details" /\ ~last.raised /\ last.prompt # <<>>) =>
          /\ users[last.chat].details = InKeyboardOrder(toggled[last.chat])
          /\ last.prompt = InKeyboardOrder(toggled[last.chat])
    /\ (last.handler = "advanced_search" /\ last.request # <<>>) =>
          /\ Len(last.request) = Len(users[last.chat].details)
          /\ \A i \in 1..Len(last.request) :
                /\ last.request[i][1] = users[last.chat].details[i]
                /\ last.request[i][2] = DetailValues(last.input)[i]
    /\ (SearchedConfirmedFields /\ last.input = ParisFrance
            /\ Len(toggled[last.chat]) = 2) =>
          last.request = << <<"country", <<"Paris">> >>, <<"city", <<"France">> >> >>

\* C6 witness: city was toggled on before country, both were confirmed, and
\* "Paris, France" was searched.
C6_Witness ==
    /\ SearchedConfirmedFields
    /\ last.input = ParisFrance
    /\ toggled[last.chat] = <<"city", "country">>

\* The label welcome_advanced_search gave the button of a payload.
InitialLabel(data) ==
    LET all == Flatten(AdvancedKeyboard)
        i == CHOOSE k \in 1..Len(all) : all[k].callback_data = data
    IN all[i].text

\* C7: pressing a detail button twice restores the membership and the label,
\* so a button pressed an even number of times carries its initial label (and
\* the set add_details reads off the labels is the set pressed an odd number
\* of times).
C7_EvenPressesRestoreLabel ==
    \A c \in DOMAIN users :
        advMsg[c] # <<>> =>
            /\ {CheckedDetails(advMsg[c])[i] : i \in 1..Len(CheckedDetails(advMsg[c]))}
                  = {toggled[c][i] : i \in 1..Len(toggled[c])}
            /\ \A k \in 1..Len(Flatten(advMsg[c])) :
                  LET b == Flatten(advMsg[c])[k] IN
                  (~\E i \in 1..Len(toggled[c]) : <<toggled[c][i]>> = b.callback_data)
                      => b.text = InitialLabel(b.callback_data)

\* A result message has just been sent by search or advanced_search.
ResultsJustSent ==
    /\ revision = "factory"
    /\ last.handler \in {"search", "advanced_search"}
    /\ ~last.raised
    /\ last.out \in { <<"send_message:SIMPLE_SEARCH_MESSAGE">>,
                      <<"send_message:ADVANCED_SEARCH_MESSAGE">> }

\* The first min(n, 2) rows of kb are the single-button rows of results 1, 2.
FirstRowsAre(kb, n) ==
    /\ Len(kb) = (IF n < 2 THEN n ELSE 2) + (IF n > 2 THEN 1 ELSE 0)
    /\ \A i \in 1..(IF n < 2 THEN n ELSE 2) :
          kb[i] = << Button(<<NameTok[i]>>, <<LatTok[i], ":", LonTok[i]>>) >>

C9_PageFailureAnswered ==
    last.handler = "switch_page" =>
        \/ ~last.raised /\ last.out = <<"edit_message_reply_markup">>
        \/ ~last.raised /\ last.out = <<"answer_callback_query:CHANGE_CURRENT_PAGE_ERROR">>

\* Rows 1, 2 of kb are the two results of page k, whatever their names.
ShowsPage(kb, k) ==
    \A j \in 1..2 :
        /\ Len(kb[j]) = 1
        /\ kb[j][1].callback_data = <<LatTok[2 * (k - 1) + j], ":", LonTok[2 * (k - 1) + j]>>

\* C10: a keyboard paginated from more than two results keeps, through page
\* switches and show-location presses, the shape "rows of one page, then the
\* pagination row", the pagination row being the one originally generated.
C10_PaginationRowKept ==
    \A c \in DOMAIN users :
        (revision = "factory" /\ hits[c] > 2) =>
            LET kb == resMsg[c]
                orig == paginate_locations(Locations(hits[c]))
            IN /\ Len(kb) = 3
               /\ kb[3] = orig[3]
               /\ \E k \in 1..(hits[c] \div 2) : ShowsPage(kb, k)

\* C10 witness: a press on page button 2 has replaced the rows of page 1.
C10_Witness ==
    /\ last.handler = "switch_page"
    /\ ~last.raised
    /\ ShowsPage(resMsg[last.chat], 2)

\* The pairs of a page payload as switch_page decodes it, encoded again as
\* "<lat>:<lon>" joined by "/".
ReEncoded(data) ==
    LET coords == Split(data, "/") IN
    Join([i \in 1..Len(coords) |->
            LET pair == Split(coords[i], ":") IN Join(<<pair[1], pair[2]>>, ":")],
         "/")

\* C11: every page payload paginate_locations generated round-trips through
\* the decoding of switch_page, and the buttons switch_page builds from page
\* k carry the payloads paginate_locations gives the results of page k.
\* (That equal inputs give equal layouts holds of any operator and is not
\* part of the formula.)
C11_PagePayloadRoundTrip ==
    \A c \in DOMAIN users :
        (revision = "factory" /\ hits[c] > 2) =>
            LET locs == Locations(hits[c])
                pages == resMsg[c][3]
            IN \A k \in 1..Len(pages) :
                  LET data == pages[k].callback_data
                      members == PageAt(locs, 2 * (k - 1))
                  IN /\ ReEncoded(data) = data
                     /\ Len(PageRows(data)) = Len(members)
                     /\ \A j \in 1..Len(members) :
                           PageRows(data)[j][1].callback_data
                             = paginate_locations(members)[j][1].callback_data

\* C11 witness: a page payload of an odd-sized list (one page has a single
\* member) was decoded by switch_page and the keyboard rebuilt.
C11_Witness ==
    /\ last.handler = "switch_page"
    /\ ~last.raised
    /\ hits[last.chat] = 3

\* Texts that are no command and no button alias.
PlainTexts == { <<"Paris">>, ParisFrance }

\* C12: an event from a chat that is not stored is treated as coming from an
\* Idle session: a plain text is ignored without error, and /search or
\* /advanced establishes the corresponding state.
C12_UnknownChatIsIdle ==
    (last.handler # "init" /\ ~last.before.exists) =>
        /\ last.input \in PlainTexts => (~last.raised /\ last.out = <<>>)
        /\ last.input = <<"/search">> =>
              /\ ~last.raised
              /\ users[last.chat].exists /\ users[last.chat].state = "search"
        /\ last.input = <<"/advanced">> =>
              /\ ~last.raised
              /\ users[last.chat].exists /\ users[last.chat].state = "advanced_search"

\* The number of commas of a text.
CommaCount(text) == Cardinality({i \in 1..Len(text) : text[i] = ","})

CountMismatchNotice == <<"send_message:INCORRECT_DETAILS_COUNT_MESSAGE">>

\* C13: when advanced_search handles a text whose number of comma-separated
\* values differs from the number of stored fields, the count-mismatch notice
\* is sent, no geocode search is made and the stored item is unchanged.
C13_CountMismatchKeepsSession ==
    (/\ last.handler = "advanced_search"
     /\ last.before.hasDetails
     /\ CommaCount(last.input) + 1 # Len(last.before.details)) =>
        /\ ~last.raised
        /\ last.out = CountMismatchNotice
        /\ last.request = <<>>
        /\ users[last.chat] = last.before

\* C13 witness: one value was sent for two stored fields.
C13_Witness ==
    /\ last.handler = "advanced_search"
    /\ last.out = CountMismatchNotice
    /\ last.input = <<"Paris">>
    /\ Len(last.before.details) = 2

NeedMoreDetailsAnswer == <<"answer_callback_query:NEED_MORE_DETAILS_MESSAGE">>

\* C14: a confirm press on a keyboard with no field switched on makes exactly
\* one transport call, the callback answer with the notice; the store, the
\* message text and the keyboard are left as they were.
C14_EmptyConfirmOnlyAnswers ==
    [][\A c \in DOMAIN users :
          (/\ last'.handler = "add_details" /\ last'.chat = c
           /\ advMsg[c] # <<>> /\ toggled[c] = <<>>) =>
              /\ ~last'.raised
              /\ last'.out = NeedMoreDetailsAnswer
              /\ last'.prompt = <<>>
              /\ users' = users
              /\ advMsg' = advMsg
              /\ resMsg' = resMsg]_vars

\* C14 witness: confirm was pressed with nothing switched on.
C14_Witness ==
    /\ last.handler = "add_details"
    /\ last.out = NeedMoreDetailsAnswer
    /\ toggled[last.chat] = <<>>
    /\ advMsg[last.chat] # <<>>

\* C15: get_locations raises before any request when given both a query and
\* details, or neither; given exactly one it issues exactly one request, with
\* the query as q or with the details as parameters.
C15_ExactlyOneArgument ==
    last.handler = "get_locations" =>
        LET query == last.input[1]
            details == last.input[2]
        IN /\ ((query # <<>> /\ details # <<>>) \/ (query = <<>> /\ details = <<>>)) =>
                 (last.raised /\ last.out = <<>> /\ last.request = <<>>)
           /\ (query # <<>> /\ details = <<>>) =>
                 (last.out = <<"requests.get">> /\ last.request = << <<"q", query>> >>)
           /\ (query = <<>> /\ details # <<>>) =>
                 (last.out = <<"requests.get">> /\ last.request = details)

\* C15 witness: get_locations was given a query and two details, and raised.
C15_Witness ==
    /\ last.handler = "get_locations"
    /\ last.input[1] = <<"Paris">>
    /\ Len(last.input[2]) = 2
    /\ last.raised

\* The texts a command handler claims: the three commands in both revisions,
\* the two button aliases in src/bot/factory.py only.
CommandOf(text) ==
    IF text = <<"/start">> THEN "start"
    ELSE IF text = <<"/search">> THEN "welcome_search"
    ELSE IF text = <<"/advanced">> THEN "welcome_advanced_search"
    ELSE IF revision = "factory" /\ text = <<"Basic search">> THEN "welcome_search"
    ELSE IF revision = "factory" /\ text = <<"Advanced search">>
         THEN "welcome_advanced_search"
    ELSE "none"

\* C16: a command text or button alias is handled by its command handler
\* whatever the stored state, and is never handed to a geocode search as a
\* query or as detail values.
C16_CommandsNeverSearched ==
    /\ (last.handler \in {"search", "advanced_search"}) =>
           /\ CommandOf(last.input) = "none"
           /\ \A i \in 1..Len(last.request) :
                  CommandOf(last.request[i][2]) = "none"
    /\ (last.handler # "init" /\ CommandOf(last.input) # "none") =>
           last.handler = CommandOf(last.input)

\* C16 witness: a button alias arrived while detail values were awaited and
\* the command handler took it.
C16_Witness ==
    /\ last.input = <<"Basic search">>
    /\ last.handler = "welcome_search"
    /\ last.before.state = "advanced_search"
    /\ last.before.hasDetails

\* C17: handling an event of one chat leaves every other chat's stored
\* session, and the handler every text of that other chat is dispatched to,
\* as they were.
C17_ChatsIndependent ==
    [][\A a \in DOMAIN users : \A b \in DOMAIN users \ {a} :
          (last'.chat = a /\ last' # last) =>
              /\ users'[b] = users[b]
              /\ \A text \in Texts : HandlerFor(b, text)' = HandlerFor(b, text)]_vars

\* C18: a plain text from a chat whose stored state is "advanced_search" with
\* a stored field list is handled by advanced_search, whether or not a confirm
\* button has been pressed since the process started.
C18_AdvancedSearchAlwaysRegistered ==
    (/\ last.input \in PlainTexts
     /\ last.handler \in {"search", "advanced_search", "none"}
     /\ last.before.exists
     /\ last.before.state = "advanced_search"
     /\ last.before.hasDetails) => last.handler = "advanced_search"

\* C19: when advanced_search takes a text of a chat that has no stored field
\* list it raises: no geocode request is made, nothing is sent and the stored
\* item is left as it was.
C19_MissingDetailsRaises ==
    (last.handler = "advanced_search" /\ ~last.before.hasDetails) =>
        /\ last.raised
        /\ last.request = <<>>
        /\ last.out = <<>>
        /\ users[last.chat] = last.before

\* C19 witness: /advanced on a fresh session, then a text: advanced_search
\* raised on the missing list.
C19_Witness ==
    /\ last.handler = "advanced_search"
    /\ last.input \in PlainTexts
    /\ last.before.state = "advanced_search"
    /\ ~last.before.hasDetails
    /\ last.raised

\* C20: a plain text from an initialised chat whose stored state is None, and
\* a press whose payload no callback rule describes, send nothing, request
\* nothing and leave the stored item as it was.
C20_NoRuleNoEffect ==
    /\ (/\ last.input \in PlainTexts
        /\ last.handler \in {"search", "advanced_search", "none"}
        /\ last.before.exists
        /\ last.before.state = "None") =>
           /\ last.handler = "none"
           /\ last.out = <<>> /\ last.request = <<>> /\ last.prompt = <<>>
           /\ users[last.chat] = last.before
    /\ (last.input \in StrayPayloads) =>
           /\ last.out = <<>> /\ last.request = <<>> /\ last.prompt = <<>>
           /\ users[last.chat] = last.before

\* C20 witness: both kinds of event were ignored, a stray press after a plain
\* text in the None state is the one seen last.
C20_Witness ==
    /\ last.input \in StrayPayloads
    /\ last.handler = "none"
    /\ last.before.exists
    /\ last.before.state = "None"

\* The payloads of the buttons of one keyboard row.
PayloadsOfRow(row) == { row[k].callback_data : k \in 1..Len(row) }

\* C21: on a keyboard paginated from more than two results, a press on a
\* result row is handled by show_location and a press on a page-number button
\* is handled by switch_page, the single-member last page of an odd-length
\* list included.
C21_PageButtonsSwitchPages ==
    \A c \in DOMAIN users :
        (/\ revision = "factory" /\ hits[c] > 2 /\ last.chat = c
         /\ last.handler \in {"show_location", "switch_page", "check_details",
                              "add_details", "none"}) =>
            LET kb == resMsg[c] IN
            /\ last.input \in PayloadsOfRow(kb[PagesRowIndex]) =>
                   last.handler = "switch_page"
            /\ last.handler = "show_location" =>
                   last.input \in PayloadsOfRow(kb[1]) \cup PayloadsOfRow(kb[2])

\* The field names of a structured request, as a set.
RequestFields(request) == { request[i][1] : i \in 1..Len(request) }

\* C22: a structured geocode request is made only once the keyboard of the
\* chat's current advanced cycle has been confirmed, and with the fields that
\* were switched on in that cycle.
C22_SearchUsesCurrentCycle ==
    (last.handler = "advanced_search" /\ last.request # <<>>) =>
        LET c == last.chat IN
        /\ advMsg[c] = <<>>
        /\ RequestFields(last.request) = { toggled[c][i] : i \in 1..Len(toggled[c]) }

\* C23: advanced_search and check_details leave the chat's stored item, its
\* state and its field list, exactly as it was, whatever the outcome; a chat
\* whose stored state is "advanced_search" leaves that state only when a
\* /start, /search or /advanced command is handled.
C23_NoStoreWrite ==
    [][\A c \in DOMAIN users :
          /\ (last' # last /\ last'.chat = c
              /\ last'.handler \in {"advanced_search", "check_details"}) =>
                 users'[c] = users[c]
          /\ (users[c].state = "advanced_search"
              /\ users'[c].state # "advanced_search") =>
                 last'.handler \in {"start", "welcome_search",
                                    "welcome_advanced_search"}]_vars

\* C23 witness: a text in the advanced state found results and the chat is
\* still in the advanced state with its confirmed field list.
C23_Witness ==
    /\ last.handler = "advanced_search"
    /\ last.out = <<"send_message:ADVANCED_SEARCH_MESSAGE">>
    /\ users[last.chat].state = "advanced_search"
    /\ users[last.chat].details = <<"country", "city">>
    /\ users[last.chat] = last.before

=============================================================================
